---- MODULE Spec2Model ----
(***************************************************************************)
(* Model of src/main.py: a FastAPI service with two routes.  GET / returns *)
(* a static welcome payload.  GET /top-tokens/?limit=<int> calls           *)
(* get_top_pumping_tokens (one outbound GET through a client of its own,   *)
(* then a shallow search of the JSON reply for a list) and renders every   *)
(* fetched record with format_token_info.                                  *)
(*                                                                         *)
(* JSON / Python values are records [t, n, s, v]:                          *)
(*   t = "int"   n = the integer                                           *)
(*   t = "float" n = the value in hundredths (1.23 is n = 123)             *)
(*   t = "bool"  n = 0 or 1        t = "null"                              *)
(*   t = "str"   s = the text                                              *)
(*   t = "list"  v = the items, in order                                   *)
(*   t = "dict"  v = the entries [k, val], in iteration order              *)
(***************************************************************************)
EXTENDS Integers, Sequences, FiniteSets, TLC

VARIABLES pc, route, limit, sent, client, opened, wire, answered,
          outcome, top_tokens, response, diag

vars == <<pc, route, limit, sent, client, opened, wire, answered,
          outcome, top_tokens, response, diag>>

(* ------------------------------ bounds -------------------------------- *)

\* Number of inbound requests the server handles concurrently.
NumRequests == 2

\* Longest list the upstream puts under "data".
MaxList == 2

Requests == 1..NumRequests

(* --------------------------- program constants ------------------------ *)

MinLimit == 1

MaxLimit == 50

DefaultLimit == 10

(* ------------------------------ JSON values --------------------------- *)

JInt(n) == [t |-> "int", n |-> n, s |-> "", v |-> <<>>]

JFloat(h) == [t |-> "float", n |-> h, s |-> "", v |-> <<>>]

JBool(b) == [t |-> "bool", n |-> IF b THEN 1 ELSE 0, s |-> "", v |-> <<>>]

JNull == [t |-> "null", n |-> 0, s |-> "", v |-> <<>>]

JStr(s) == [t |-> "str", n |-> 0, s |-> s, v |-> <<>>]

JList(items) == [t |-> "list", n |-> 0, s |-> "", v |-> items]

JDict(entries) == [t |-> "dict", n |-> 0, s |-> "", v |-> entries]

KV(k, val) == [k |-> k, val |-> val]

\* isinstance(x, dict), isinstance(x, list)
IsDict(x) == x.t = "dict"

IsList(x) == x.t = "list"

\* key in d, for a dict d
HasKey(d, k) == \E i \in 1..Len(d.v) : d.v[i].k = k

\* d[key], for a dict d holding the key
Item(d, k) == d.v[CHOOSE i \in 1..Len(d.v) : d.v[i].k = k].val

\* d.get(key, default)
Get(d, k, default) == IF HasKey(d, k) THEN Item(d, k) ELSE default

(* --------------------------- text rendering --------------------------- *)

Digit(d) ==
    CASE d = 0 -> "0" [] d = 1 -> "1" [] d = 2 -> "2" [] d = 3 -> "3"
      [] d = 4 -> "4" [] d = 5 -> "5" [] d = 6 -> "6" [] d = 7 -> "7"
      [] d = 8 -> "8" [] d = 9 -> "9"

RECURSIVE Digits(_)
\* str(n) of an integer n >= 0
Digits(n) == IF n < 10 THEN Digit(n) ELSE Digits(n \div 10) \o Digit(n % 10)

\* n zero-padded to two and to three digits
Pad2(n) == Digit((n \div 10) % 10) \o Digit(n % 10)

Pad3(n) == Digit((n \div 100) % 10) \o Pad2(n % 100)

RECURSIVE Grouped(_)
\* the integer part under the "," option: groups of three digits
Grouped(n) ==
    IF n < 1000 THEN Digits(n) ELSE Grouped(n \div 1000) \o "," \o Pad3(n % 1000)

\* int, float and bool (a subclass of int) accept the float presentation
\* types "f" and "%"; str, None, list and dict raise on them.
IsNumber(x) == x.t \in {"int", "float", "bool"}

\* the value of a number in hundredths
Hundredths(x) == IF x.t = "float" THEN x.n ELSE x.n * 100

\* format(x, ".8f")
FormatF8(x) ==
    Digits(Hundredths(x) \div 100) \o "." \o Pad2(Hundredths(x) % 100) \o "000000"

\* format(x, ",.2f")
FormatGrouped2(x) ==
    Grouped(Hundredths(x) \div 100) \o "." \o Pad2(Hundredths(x) % 100)

\* format(x, ".2%"): the value times 100, two decimals, a percent sign
FormatPercent2(x) == Digits(Hundredths(x)) \o ".00%"

\* the fraction of a float's repr: trailing zeros dropped, one digit kept
Fraction(h) == IF h % 10 = 0 THEN Digit(h \div 10) ELSE Pad2(h)

\* str(x), as an f-string field without a format spec renders it
PyStr(x) ==
    CASE x.t = "str" -> x.s
      [] x.t = "int" -> Digits(x.n)
      [] x.t = "float" -> Digits(x.n \div 100) \o "." \o Fraction(x.n % 100)
      [] x.t = "bool" -> IF x.n = 1 THEN "True" ELSE "False"
      [] x.t = "null" -> "None"
      [] x.t = "list" /\ x.v = <<>> -> "[]"
      [] x.t = "dict" /\ x.v = <<>> -> "{}"

\* the type name print() shows for type(x)
TypeName(x) ==
    CASE x.t = "str" -> "<class 'str'>"
      [] x.t = "int" -> "<class 'int'>"
      [] x.t = "float" -> "<class 'float'>"
      [] x.t = "bool" -> "<class 'bool'>"
      [] x.t = "null" -> "<class 'NoneType'>"
      [] x.t = "list" -> "<class 'list'>"
      [] x.t = "dict" -> "<class 'dict'>"

\* datetime.fromtimestamp accepts int, float and bool seconds
IsTimestamp(x) == IsNumber(x)

\* datetime.fromtimestamp(x).strftime('%Y-%m-%d %H:%M:%S') for a timestamp
\* within January 1970, the local zone being UTC
FormatTime(x) ==
    LET secs == Hundredths(x) \div 100
        day  == secs \div 86400
        rest == secs % 86400
    IN  "1970-01-" \o Pad2(day + 1) \o " " \o Pad2(rest \div 3600) \o ":"
          \o Pad2((rest % 3600) \div 60) \o ":" \o Pad2(rest % 60)

(* ------------------------------- Fetcher ------------------------------ *)

Min(a, b) == IF a <= b THEN a ELSE b

Max(a, b) == IF a >= b THEN a ELSE b

\* a clamp with min and max exchanged
SwappedClamp(L) == Max(MaxLimit, Min(MinLimit, L))

\* limit = min(50, max(1, limit))
Clamp(L) == Min(MaxLimit, Max(MinLimit, L))

\* the f-string of the upstream URL; L is the clamped limit
Url(L) ==
    "https://gmgn.ai/defi/quotation/v1/rank/sol/pump?limit=" \o Digits(L)
      \o "&orderby=progress&direction=desc&pump=true"

RECURSIVE LastList(_)
\* a scan that keeps going after a list and returns the last one
LastList(entries) ==
    IF entries = <<>> THEN [found |-> FALSE, value |-> <<>>]
    ELSE LET rest == LastList(Tail(entries))
         IN  IF rest.found THEN rest
             ELSE IF IsList(Head(entries).val)
                  THEN [found |-> TRUE, value |-> Head(entries).val.v]
                  ELSE rest

RECURSIVE FirstList(_)
\* for key, value in data['data'].items(): if isinstance(value, list): return value
FirstList(entries) ==
    IF entries = <<>> THEN [found |-> FALSE, value |-> <<>>]
    ELSE IF IsList(Head(entries).val)
         THEN [found |-> TRUE, value |-> Head(entries).val.v]
         ELSE FirstList(Tail(entries))

FullDump == <<"Full API Response:", "json.dumps(data, indent=2)">>

\* the body of the try block after response.json(): the search for the list
Extract(data) ==
    IF IsDict(data) /\ HasKey(data, "data")
    THEN IF IsDict(Item(data, "data"))
         THEN LET f == FirstList(Item(data, "data").v)
              IN  IF f.found
                  THEN [path |-> "list", raised |-> FALSE, ret |-> f.value,
                        out |-> <<>>]
                  ELSE [path |-> "nolist", raised |-> FALSE, ret |-> <<>>,
                        out |-> <<"No list found in the 'data' dictionary">>
                                  \o FullDump]
         ELSE [path |-> "notdict", raised |-> FALSE, ret |-> <<>>,
               out |-> <<"'data' value is not a dict, it's a "
                           \o TypeName(Item(data, "data"))>> \o FullDump]
    ELSE [path |-> "unexpected", raised |-> FALSE, ret |-> <<>>,
          out |-> <<"Unexpected data format in the API response">> \o FullDump]

\* response.raise_for_status() raises HTTPStatusError on 4xx and 5xx
IsErrorStatus(status) == status >= 400 /\ status <= 599

\* a fetch whose JSON decode error is not caught
UncaughtDecode(rep) ==
    IF rep.kind = "neterr"
    THEN [path |-> "network", raised |-> FALSE, ret |-> <<>>, out |-> <<>>]
    ELSE IF IsErrorStatus(rep.status)
    THEN [path |-> "status", raised |-> FALSE, ret |-> <<>>, out |-> <<>>]
    ELSE IF ~rep.valid
    THEN [path |-> "decode", raised |-> TRUE, ret |-> <<>>, out |-> <<>>]
    ELSE Extract(rep.body)

\* what the try/except of get_top_pumping_tokens makes of the upstream reply:
\* the path taken, whether an exception leaves the function, the value
\* returned and the lines printed
FetchOutcome(rep) ==
    IF rep.kind = "neterr"
    THEN [path |-> "network", raised |-> FALSE, ret |-> <<>>,
          out |-> <<"An error occurred while fetching data: " \o rep.err>>]
    ELSE IF IsErrorStatus(rep.status)
    THEN [path |-> "status", raised |-> FALSE, ret |-> <<>>,
          out |-> <<"API request failed with status code: "
                      \o Digits(rep.status)>>]
    ELSE IF ~rep.valid
    THEN [path |-> "decode", raised |-> FALSE, ret |-> <<>>,
          out |-> <<"Error decoding JSON response: " \o rep.err,
                    "Raw response content:", "response.text">>]
    ELSE Extract(rep.body)

\* a handler that sends the request again after a failure
RetryOnFailure(path, url) ==
    IF path \in {"network", "status", "decode"} THEN <<url>> ELSE <<>>

\* the requests issued after the awaited GET has completed or failed: the
\* except handlers and the search of the body send nothing
Resend(path, url) == <<>>

\* a client released only when the try block ends without an exception
LeakOnException(path) ==
    IF path \in {"network", "status", "decode"} THEN "open" ELSE "closed"

\* the state of the client once the async with block is left, on any path
AsyncWithExit(path) == "closed"

\* a client shared by all calls
SharedClient(r) == 1

\* httpx.AsyncClient() constructs a client of its own for each call
ClientOf(r) == r

(* ------------------------------ Formatter ----------------------------- *)

NotAvailable == JStr("N/A")

\* the fields of the block, in the order of the f-string
FieldOrder ==
    <<"symbol", "name", "price", "usd_market_cap", "created_timestamp",
      "last_trade_timestamp", "progress", "holder_count", "volume_1h",
      "price_change_percent5m", "website", "twitter", "telegram">>

\* the fields rendered with a float format spec (:.8f, :,.2f, :.2%)
NumericFields == {"price", "usd_market_cap", "progress", "volume_1h"}

\* the fields passed to datetime.fromtimestamp
TimeFields == {"created_timestamp", "last_trade_timestamp"}

\* token.get(field, default): 0 for the timestamps, 'N/A' for the rest
Value(token, f) ==
    Get(token, f, IF f \in TimeFields THEN JInt(0) ELSE NotAvailable)

Label(f) ==
    CASE f = "symbol" -> "Symbol: "
      [] f = "name" -> "Name: "
      [] f = "price" -> "Price: $"
      [] f = "usd_market_cap" -> "Market Cap: $"
      [] f = "created_timestamp" -> "Created: "
      [] f = "last_trade_timestamp" -> "Last Trade: "
      [] f = "progress" -> "Progress: "
      [] f = "holder_count" -> "Holder Count: "
      [] f = "volume_1h" -> "Volume (1h): $"
      [] f = "price_change_percent5m" -> "Price Change (5m): "
      [] f = "website" -> "Website: "
      [] f = "twitter" -> "Twitter: "
      [] f = "telegram" -> "Telegram: "

\* whether the conversion applied to field f accepts the value x
Accepts(f, x) ==
    IF f \in NumericFields THEN IsNumber(x)
    ELSE IF f \in TimeFields THEN IsTimestamp(x)
    ELSE TRUE

\* the conversion applied to field f
Render(f, x) ==
    CASE f = "price" -> FormatF8(x)
      [] f \in {"usd_market_cap", "volume_1h"} -> FormatGrouped2(x)
      [] f = "progress" -> FormatPercent2(x)
      [] f \in TimeFields -> FormatTime(x)
      [] f = "price_change_percent5m" -> PyStr(x) \o "%"
      [] OTHER -> PyStr(x)

FieldLine(token, f) == Label(f) \o Render(f, Value(token, f)) \o "\n"

RECURSIVE Block(_, _)
\* the lines of the fields from position i on, then the separator
Block(token, i) ==
    IF i > Len(FieldOrder) THEN "--------------------"
    ELSE FieldLine(token, FieldOrder[i]) \o Block(token, i + 1)

\* whether format_token_info(token) raises: token.get on a value that is no
\* dict, fromtimestamp on a value that is no number, a float format spec on
\* a value that is no number (the default 'N/A' included)
FormatRaises(token) ==
    \/ ~IsDict(token)
    \/ \E i \in 1..Len(FieldOrder) :
          ~Accepts(FieldOrder[i], Value(token, FieldOrder[i]))

format_token_info(token) ==
    IF FormatRaises(token) THEN [raised |-> TRUE, text |-> ""]
    ELSE [raised |-> FALSE, text |-> Block(token, 1)]

(* ------------------------------- Handlers ----------------------------- *)

NoResponse == [kind |-> "none", tokens |-> <<>>, msg |-> ""]

\* the request ends in an exception the handler does not catch
Raised == [kind |-> "raised", tokens |-> <<>>, msg |-> ""]

ErrorBody == [kind |-> "error", tokens |-> <<>>, msg |-> "No token data retrieved."]

TokensBody(texts) == [kind |-> "tokens", tokens |-> texts, msg |-> ""]

\* root(): {"message": "Welcome to the Top Pumping Tokens API"}
WelcomeBody ==
    [kind |-> "message", tokens |-> <<>>,
     msg |-> "Welcome to the Top Pumping Tokens API"]

RECURSIVE GoodTexts(_)
\* the texts of the records that format without an error
GoodTexts(top) ==
    IF top = <<>> THEN <<>>
    ELSE IF format_token_info(Head(top)).raised THEN GoodTexts(Tail(top))
    ELSE <<format_token_info(Head(top)).text>> \o GoodTexts(Tail(top))

\* a handler that drops the records it cannot format
SkipBadRecords(top) ==
    IF top # <<>>
    THEN IF GoodTexts(top) # <<>> THEN TokensBody(GoodTexts(top)) ELSE ErrorBody
    ELSE ErrorBody

\* a handler that lists the records last first
ReversedTokens(top) ==
    IF top # <<>>
    THEN IF \E i \in 1..Len(top) : format_token_info(top[i]).raised
         THEN Raised
         ELSE TokensBody([i \in 1..Len(top) |->
                            format_token_info(top[Len(top) + 1 - i]).text])
    ELSE ErrorBody

\* get_top_tokens after the await: the list comprehension over top_tokens,
\* or the error body when top_tokens is empty
TokensResponse(top) ==
    IF top # <<>>
    THEN IF \E i \in 1..Len(top) : format_token_info(top[i]).raised
         THEN Raised
         ELSE TokensBody([i \in 1..Len(top) |-> format_token_info(top[i]).text])
    ELSE ErrorBody

\* the limit parameter of get_top_tokens: the query value, 10 when omitted
LimitOf(q) == IF q.given THEN q.value ELSE DefaultLimit

(* -------------------------------- inputs ------------------------------ *)

Omitted == [given |-> FALSE, value |-> 0]

Limits == {-7, 0, 1, 2, 50, 51, 999}

Queries == {Omitted} \cup {[given |-> TRUE, value |-> L] : L \in Limits}

Numbers ==
    <<KV("price", JFloat(123)), KV("usd_market_cap", JInt(1234567)),
      KV("progress", JFloat(45)), KV("volume_1h", JFloat(150050))>>

TokFull ==
    JDict(<<KV("symbol", JStr("ABC")), KV("name", JStr("Alpha"))>> \o Numbers
          \o <<KV("created_timestamp", JInt(3661)),
               KV("last_trade_timestamp", JInt(90061)),
               KV("holder_count", JInt(12)),
               KV("price_change_percent5m", JFloat(150)),
               KV("website", JStr("https://a.example")),
               KV("twitter", JNull), KV("telegram", JStr("t.me/a"))>>)

\* the four numeric fields and nothing else
TokSparse == JDict(Numbers)

TokEmpty == JDict(<<>>)

TokBadPrice == JDict(<<KV("price", JStr("1.23"))>> \o Tail(Numbers))

TokBadCap ==
    JDict(<<KV("symbol", JStr("CAP")), Numbers[1], KV("usd_market_cap", JNull),
            Numbers[3], Numbers[4]>>)

TokBadProgress ==
    JDict(<<Numbers[1], Numbers[2], KV("progress", JList(<<>>)), Numbers[4]>>)

TokBadVolume == JDict(SubSeq(Numbers, 1, 3) \o <<KV("volume_1h", JStr("n/a"))>>)

TokBadStamp == JDict(Numbers \o <<KV("created_timestamp", JStr("yesterday"))>>)

\* JSON true in a numeric field: a Python bool, which formats as the int 1
TokBoolPrice == JDict(<<KV("price", JBool(TRUE))>> \o Tail(Numbers))

TokenPool ==
    {TokFull, TokSparse, TokEmpty, TokBadPrice, TokBadCap, TokBadProgress,
     TokBadVolume, TokBadStamp, TokBoolPrice, JStr("not a record")}

\* the lists the upstream may put under "data"
Lists == UNION {[1..n -> TokenPool] : n \in 0..MaxList}

DataDicts ==
    {JDict(<<>>), JDict(<<KV("x", JStr("not a list"))>>),
     JDict(<<KV("inner", JDict(<<KV("rank", JList(<<TokFull>>))>>))>>)}
      \cup {JDict(<<KV("rank", JList(l))>>) : l \in Lists}
      \cup {JDict(<<KV("x", JStr("not a list")), KV("y", JList(l))>>) : l \in Lists}
      \cup {JDict(<<KV("rank", JList(l)), KV("more", JList(<<TokSparse>>))>>) :
              l \in Lists}

Bodies ==
    {JList(<<TokFull>>), JStr("text"), JDict(<<KV("nope", JInt(1))>>),
     JDict(<<KV("data", JStr("not a mapping"))>>),
     JDict(<<KV("data", JList(<<TokFull>>))>>)}
      \cup {JDict(<<KV("code", JInt(0)), KV("data", d)>>) : d \in DataDicts}

NetError(e) ==
    [kind |-> "neterr", status |-> 0, valid |-> FALSE, body |-> JNull, err |-> e]

HttpReply(status, valid, body) ==
    [kind |-> "response", status |-> status, valid |-> valid, body |-> body,
     err |-> IF valid THEN "" ELSE "Expecting value: line 1 column 1 (char 0)"]

GoodBody == JDict(<<KV("data", JDict(<<KV("rank", JList(<<TokFull>>))>>))>>)

FailedReplies ==
    {NetError("timed out"), NetError("connection refused"),
     NetError("name resolution failed"),
     HttpReply(404, FALSE, JNull), HttpReply(500, TRUE, GoodBody),
     HttpReply(503, FALSE, JNull), HttpReply(200, FALSE, JNull)}

Replies == FailedReplies \cup {HttpReply(200, TRUE, b) : b \in Bodies}

ConcQueries == {[given |-> TRUE, value |-> L] : L \in {0, 1, 51}}

ConcReplies ==
    {NetError("timed out"), HttpReply(500, TRUE, GoodBody),
     HttpReply(200, FALSE, JNull), HttpReply(200, TRUE, GoodBody),
     HttpReply(200, TRUE,
               JDict(<<KV("data", JDict(<<KV("rank",
                         JList(<<TokSparse, TokFull>>))>>))>>)),
     HttpReply(200, TRUE,
               JDict(<<KV("data", JDict(<<KV("rank", JList(<<TokEmpty>>))>>))>>))}

(* -------------------------------- state ------------------------------- *)

NoOutcome == [path |-> "none", raised |-> FALSE, ret |-> <<>>, out |-> <<>>]

Init ==
    /\ pc = [r \in Requests |-> "idle"]
    /\ route = [r \in Requests |-> ""]
    /\ limit = [r \in Requests |-> 0]
    /\ sent = [r \in Requests |-> <<>>]
    /\ client = [c \in Requests |-> "unopened"]
    /\ opened = [c \in Requests |-> 0]
    /\ wire = [c \in Requests |-> <<>>]
    /\ answered = [r \in Requests |-> <<>>]
    /\ outcome = [r \in Requests |-> NoOutcome]
    /\ top_tokens = [r \in Requests |-> <<>>]
    /\ response = [r \in Requests |-> NoResponse]
    /\ diag = [r \in Requests |-> <<>>]

\* GET /: the static welcome payload
root(r) ==
    /\ pc[r] = "idle"
    /\ pc' = [pc EXCEPT ![r] = "done"]
    /\ route' = [route EXCEPT ![r] = "/"]
    /\ response' = [response EXCEPT ![r] = WelcomeBody]
    /\ UNCHANGED <<limit, sent, client, opened, wire, answered, outcome,
                   top_tokens, diag>>

\* GET /top-tokens/ up to the await of client.get: the limit is clamped, the
\* URL built, a client opened and the one GET sent
Begin(r, q) ==
    /\ pc[r] = "idle"
    /\ pc' = [pc EXCEPT ![r] = "awaiting"]
    /\ route' = [route EXCEPT ![r] = "/top-tokens/"]
    /\ limit' = [limit EXCEPT ![r] = LimitOf(q)]
    /\ client' = [client EXCEPT ![ClientOf(r)] = "open"]
    /\ opened' = [opened EXCEPT ![ClientOf(r)] = @ + 1]
    /\ sent' = [sent EXCEPT ![r] = <<Url(Clamp(LimitOf(q)))>>]
    /\ UNCHANGED <<wire, answered, outcome, top_tokens, response, diag>>

\* the upstream (or the network) answers the request of call r; the answer
\* arrives on the connection of the client that sent it
Upstream(r, rep) ==
    /\ pc[r] = "awaiting"
    /\ answered[r] = <<>>
    /\ answered' = [answered EXCEPT ![r] = <<rep>>]
    /\ wire' = [wire EXCEPT ![ClientOf(r)] = Append(@, rep)]
    /\ UNCHANGED <<pc, route, limit, sent, client, opened, outcome, top_tokens,
                   response, diag>>

\* the await of client.get ends: raise_for_status, json(), the search for
\* the list or an except handler, up to the exit of the async with block
Resume(r) ==
    /\ pc[r] = "awaiting"
    /\ wire[ClientOf(r)] # <<>>
    /\ LET o == FetchOutcome(Head(wire[ClientOf(r)]))
       IN  /\ outcome' = [outcome EXCEPT ![r] = o]
           /\ diag' = [diag EXCEPT ![r] = @ \o o.out]
           /\ sent' = [sent EXCEPT ![r] = @ \o Resend(o.path, Head(@))]
    /\ wire' = [wire EXCEPT ![ClientOf(r)] = Tail(@)]
    /\ pc' = [pc EXCEPT ![r] = "closing"]
    /\ UNCHANGED <<route, limit, client, opened, answered, top_tokens, response>>

\* the async with block is left and get_top_pumping_tokens returns to
\* get_top_tokens, which formats the records and answers
Return(r) ==
    /\ pc[r] = "closing"
    /\ client' = [client EXCEPT ![ClientOf(r)] = AsyncWithExit(outcome[r].path)]
    /\ top_tokens' = [top_tokens EXCEPT ![r] = outcome[r].ret]
    /\ response' = [response EXCEPT ![r] =
                      IF outcome[r].raised THEN Raised
                      ELSE TokensResponse(outcome[r].ret)]
    /\ pc' = [pc EXCEPT ![r] = "done"]
    /\ UNCHANGED <<route, limit, sent, opened, wire, answered, outcome, diag>>

\* one request, every query and every upstream reply of the pools
Next ==
    \/ root(1)
    \/ \E q \in Queries : Begin(1, q)
    \/ \E rep \in Replies : Upstream(1, rep)
    \/ Resume(1)
    \/ Return(1)

Spec == Init /\ [][Next]_vars

\* concurrent requests, interleaved at the await
NextConc ==
    \/ \E r \in Requests : root(r)
    \/ \E r \in Requests, q \in ConcQueries : Begin(r, q)
    \/ \E r \in Requests, rep \in ConcReplies : Upstream(r, rep)
    \/ \E r \in Requests : Resume(r)
    \/ \E r \in Requests : Return(r)

SpecConc == Init /\ [][NextConc]_vars

(* -------------------------------- claims ------------------------------ *)

\* request r is a GET /top-tokens/ that has reached program point p
At(r, p) == route[r] = "/top-tokens/" /\ pc[r] = p

\* the await of r's GET has ended and the reply has been processed
Fetched(r) == At(r, "closing") \/ At(r, "done")

\* the response a request produces when it runs alone and the upstream
\* answers rep
AloneResponse(rep) ==
    IF FetchOutcome(rep).raised THEN Raised
    ELSE TokensResponse(FetchOutcome(rep).ret)

\* C1: the limit carried by the single upstream request is 1 for a limit
\* below 1, 50 for a limit above 50 and the limit itself in between; a
\* request with limit=0 issues the request of limit=1, and both answer
\* with the same function of the upstream reply.
C1_LimitIsClamped ==
    \A r \in Requests :
        route[r] = "/top-tokens/" =>
            /\ limit[r] < 1 => sent[r] = <<Url(1)>>
            /\ limit[r] > 50 => sent[r] = <<Url(50)>>
            /\ (limit[r] >= 1 /\ limit[r] <= 50) => sent[r] = <<Url(limit[r])>>
            /\ (limit[r] \in {0, 1} /\ pc[r] = "done") =>
                   response[r] = AloneResponse(answered[r][1])

C1_Witness ==
    \E r \in Requests :
        /\ At(r, "done") /\ limit[r] = 0
        /\ sent[r] = <<Url(1)>>
        /\ response[r].kind = "tokens"

\* C2: the sequence get_top_pumping_tokens returns is never longer than
\* min(50, max(1, L)), whatever the upstream replies.
C2_LengthWithinLimit ==
    \A r \in Requests :
        Fetched(r) =>
            Len(outcome[r].ret) <= (IF limit[r] < 1 THEN 1
                                    ELSE IF limit[r] > 50 THEN 50 ELSE limit[r])

\* the reply to r was a success status with a body that parsed
Parsed(r) ==
    /\ Fetched(r)
    /\ answered[r] # <<>>
    /\ answered[r][1].kind = "response"
    /\ answered[r][1].status = 200
    /\ answered[r][1].valid

\* the entries of the mapping under "data" of a body, <<>> when the body
\* is no mapping, has no "data" key or holds no mapping there
DataEntries(b) ==
    IF b.t = "dict" /\ \E i \in 1..Len(b.v) : b.v[i].k = "data" /\ b.v[i].val.t = "dict"
    THEN (b.v[CHOOSE i \in 1..Len(b.v) : b.v[i].k = "data"]).val.v
    ELSE <<>>

\* C3: for a parsed body the fetch returns the first list-valued entry of
\* the mapping under "data" (non-list entries before it skipped, later
\* entries ignored), and the empty sequence when there is no such entry.
C3_FirstListUnderData ==
    \A r \in Requests :
        Parsed(r) =>
            LET e == DataEntries(answered[r][1].body)
                lists == {i \in 1..Len(e) : e[i].val.t = "list"}
            IN  IF lists = {}
                THEN outcome[r].ret = <<>>
                ELSE \E i \in lists :
                        /\ \A j \in lists : i <= j
                        /\ outcome[r].ret = e[i].val.v

C3_Witness ==
    \E r \in Requests :
        /\ Parsed(r)
        /\ LET e == DataEntries(answered[r][1].body)
           IN  /\ Len(e) = 2
               /\ e[1].val.t = "str"
               /\ e[2].val.t = "list"
               /\ outcome[r].ret = e[2].val.v
               /\ Len(outcome[r].ret) = 2

\* the upstream call of r ended in a failing status, a network failure or
\* a body that is not valid JSON
Failed(rep) ==
    \/ rep.kind = "neterr"
    \/ rep.kind = "response" /\ rep.status >= 400 /\ rep.status <= 599
    \/ rep.kind = "response" /\ ~rep.valid

\* C4: after a failing status, a network failure or an invalid JSON body
\* get_top_pumping_tokens returns the empty sequence and raises nothing.
C4_FailuresBecomeEmpty ==
    \A r \in Requests :
        (Fetched(r) /\ answered[r] # <<>> /\ Failed(answered[r][1])) =>
            /\ outcome[r].ret = <<>>
            /\ ~outcome[r].raised
            /\ pc[r] = "done" => (top_tokens[r] = <<>> /\ response[r] = ErrorBody)

C4_Witness ==
    \E r \in Requests :
        /\ At(r, "done")
        /\ answered[r][1].kind = "response"
        /\ answered[r][1].status = 500
        /\ answered[r][1].valid
        /\ top_tokens[r] = <<>>
        /\ response[r] = ErrorBody

\* C5: a completed GET /top-tokens/ response is the error body when the
\* fetch returned the empty sequence, and otherwise a non-empty "tokens"
\* list of the length of the fetched sequence whose i-th element is
\* format_token_info of the i-th fetched record.
C5_ResponseShape ==
    \A r \in Requests :
        (At(r, "done") /\ response[r].kind # "raised") =>
            IF top_tokens[r] = <<>>
            THEN response[r] =
                    [kind |-> "error", tokens |-> <<>>,
                     msg |-> "No token data retrieved."]
            ELSE /\ response[r].kind = "tokens"
                 /\ response[r].msg = ""
                 /\ Len(response[r].tokens) = Len(top_tokens[r])
                 /\ \A i \in 1..Len(top_tokens[r]) :
                        /\ ~format_token_info(top_tokens[r][i]).raised
                        /\ response[r].tokens[i] =
                               format_token_info(top_tokens[r][i]).text

C5_Witness ==
    \E r \in Requests :
        /\ At(r, "done")
        /\ response[r].kind = "tokens"
        /\ top_tokens[r] = <<TokSparse, TokFull>>
        /\ response[r].tokens[1] # response[r].tokens[2]

\* the block of a record with no field at all, as the claim describes it
PlaceholderBlock ==
    "Symbol: N/A\nName: N/A\nPrice: $N/A\nMarket Cap: $N/A\n"
      \o "Created: 1970-01-01 00:00:00\nLast Trade: 1970-01-01 00:00:00\n"
      \o "Progress: N/A\nHolder Count: N/A\nVolume (1h): $N/A\n"
      \o "Price Change (5m): N/A%\nWebsite: N/A\nTwitter: N/A\nTelegram: N/A\n"
      \o "--------------------"

\* the fields the record holds all have the type their conversion accepts
WellTyped(token) ==
    /\ IsDict(token)
    /\ \A i \in 1..Len(token.v) : Accepts(token.v[i].k, token.v[i].val)

\* C6: format_token_info renders a record whose fields are absent without
\* raising, each absent field as "N/A"; format_token_info({}) is the block
\* of placeholders with both timestamps at the epoch start.
C6_AbsentFieldsArePlaceholders ==
    \A r \in Requests :
        (/\ At(r, "done")
         /\ top_tokens[r] # <<>>
         /\ \A i \in 1..Len(top_tokens[r]) : WellTyped(top_tokens[r][i])) =>
            /\ response[r].kind = "tokens"
            /\ \A i \in 1..Len(top_tokens[r]) :
                   top_tokens[r][i] = JDict(<<>>) =>
                       response[r].tokens[i] = PlaceholderBlock

\* C7: each call of get_top_pumping_tokens issues exactly one outbound
\* GET: none before the call, one from the call on, on every path.
C7_OneRequestPerCall ==
    \A r \in Requests :
        /\ pc[r] = "idle" => sent[r] = <<>>
        /\ route[r] = "/top-tokens/" => Len(sent[r]) = 1

C7_Witness ==
    \E r, s \in Requests :
        /\ At(r, "done") /\ outcome[r].path = "status" /\ Len(sent[r]) = 1
        /\ At(s, "done") /\ outcome[s].path = "decode" /\ Len(sent[s]) = 1

\* C8: once a call of get_top_pumping_tokens has returned its client is
\* closed, on every exit path; no client is opened by two calls, and an
\* open client belongs to a call still in progress.
C8_ClientReleased ==
    /\ \A r \in Requests : At(r, "done") => client[ClientOf(r)] = "closed"
    /\ \A c \in Requests : opened[c] <= 1
    /\ \A c \in Requests :
          client[c] = "open" =>
              \E r \in Requests :
                  ClientOf(r) = c /\ (At(r, "awaiting") \/ At(r, "closing"))

C8_Witness ==
    \E r, s \in Requests :
        /\ At(r, "done") /\ outcome[r].path = "network"
        /\ At(s, "done") /\ outcome[s].path = "list"
        /\ client[ClientOf(r)] = "closed"
        /\ client[ClientOf(s)] = "closed"

\* C9: under any interleaving of concurrent requests each response is the
\* one the request produces alone from its own limit and the reply to its
\* own outbound call.
C9_RequestsIndependent ==
    \A r \in Requests :
        At(r, "done") =>
            /\ answered[r] # <<>>
            /\ sent[r] = <<Url(Clamp(limit[r]))>>
            /\ top_tokens[r] = FetchOutcome(answered[r][1]).ret
            /\ response[r] = AloneResponse(answered[r][1])

C9_Witness ==
    \E r, s \in Requests :
        /\ At(r, "done") /\ At(s, "done")
        /\ answered[r] # answered[s]
        /\ response[r].kind = "tokens"
        /\ response[s].kind = "error"
        /\ limit[r] # limit[s]

\* the record holds a numerically formatted field whose value is no number
BadNumber(token) ==
    /\ IsDict(token)
    /\ \E i \in 1..Len(token.v) :
          /\ token.v[i].k \in {"price", "usd_market_cap", "progress", "volume_1h"}
          /\ token.v[i].val.t \notin {"int", "float", "bool"}

\* C10: when a record of the fetched list holds a present, non-numeric
\* value in a numerically formatted field, the request fails as a whole:
\* neither a "tokens" body nor the error body, wherever the record stands.
C10_BadFieldFailsRequest ==
    \A r \in Requests :
        (At(r, "done") /\ \E i \in 1..Len(top_tokens[r]) : BadNumber(top_tokens[r][i])) =>
            response[r] = Raised

C10_Witness ==
    \E r \in Requests :
        /\ At(r, "done")
        /\ top_tokens[r] = <<TokFull, TokBadVolume>>
        /\ response[r] = Raised

====
